---- MODULE Spec2Model ----
(***************************************************************************)
(* A model of the conversational core of talk-to-me-claude-cli:            *)
(*   src/src/mcp_server/session.py           Session, SessionManager       *)
(*   src/src/mcp_server/voice_controller.py  VoiceController               *)
(*   src/src/mcp_server/tools.py             ToolHandler                   *)
(*   src/src/mcp_server/resources.py         ResourceHandler               *)
(*   src/src/mcp_server/server.py            call_tool                     *)
(*   src/src/extractor.py                    extract_narration,            *)
(*                                           clean_narration,              *)
(*                                           remove_narration_tags         *)
(* Python's None is the empty tuple and a present optional value x is the  *)
(* one-element tuple <<x>>, so that an absent text and an empty text are   *)
(* different values.                                                       *)
(***************************************************************************)
EXTENDS Integers, Sequences, FiniteSets, TLC

VARIABLES
    sessions,   \* SessionManager.sessions: session id -> Session
    current,    \* SessionManager._current_session_id: None or Some(id)
    issued,     \* the ids uuid4 has handed out so far
    now,        \* the wall clock datetime.now() reads, in hours
    solo,       \* a Session object a caller constructed itself, or None
    playing,    \* the texts background speech processes are speaking
    controller, \* a VoiceController a caller keeps over several calls, or None
    tasks,      \* the send_message invocations the event loop holds: task -> position
    last        \* the operation that ran last: [op, arg, ret]

vars == <<sessions, current, issued, now, solo, playing, controller, tasks, last>>

----------------------------------------------------------------------------
(* Bounds of the model. *)

MaxIds == 2        \* ids uuid4 can hand out: 1..MaxIds
MaxTime == 2       \* the clock runs over 0..MaxTime
MaxHistory == 1    \* messages a history can hold before send_message is cut off
MaxAge == 1        \* cleanup is called with max_age_hours in 0..MaxAge
MaxChat == 2       \* messages a history can hold in SpecChat
MaxText == 5       \* tokens of a text given to the extractor in SpecExtract
MaxRaw == 5        \* tokens of a raw narration given to the cleaning pass in SpecClean
MaxTasks == 3      \* send_message invocations issued at once in SpecTasks

----------------------------------------------------------------------------
(* Optional values. *)

None == <<>>
Some(x) == <<x>>
Val(o) == o[1]

Min(a, b) == IF a <= b THEN a ELSE b

Ids == 1..MaxIds
\* what a caller can pass as a session id: an id in use, one not yet issued,
\* or MaxIds + 1, which names no session ever
ArgIds == 1..(MaxIds + 1)

\* The values datetime.now() can return during one handler that starts at
\* "now": the clock does not go backwards and advances at most one hour
\* while the handler runs.
ClockReads == now..Min(now + 1, MaxTime)

----------------------------------------------------------------------------
(* Text. A text is a sequence of tokens: the narration markers in upper   *)
(* and in lower case, a word character, a full stop, a space, a newline,   *)
(* and the characters the cleaning pass looks for: a backtick, a hash, an  *)
(* asterisk and a URL. The alphabet holds no bracket, emoji or dash, so    *)
(* the link, symbol and emoji steps of the cleaning pass leave every text  *)
(* of the model as it is.                                                  *)

OPEN == "[VOICE_NARRATION]"
CLOSE == "[/VOICE_NARRATION]"
open_lower == "[voice_narration]"
close_lower == "[/voice_narration]"
\* the backtick, which no string of TLA+ can hold
TICK == "BACKTICK"
HASH == "#"
STAR == "*"
URL == "http://x"

\* the markers are matched with re.IGNORECASE
IsOpen(c) == c \in {OPEN, open_lower}
IsClose(c) == c \in {CLOSE, close_lower}

IsSpace(c) == c \in {" ", "\n"}

RECURSIVE LStrip(_)
LStrip(s) == IF s # <<>> /\ IsSpace(Head(s)) THEN LStrip(Tail(s)) ELSE s

RECURSIVE RStrip(_)
RStrip(s) ==
    IF s # <<>> /\ IsSpace(s[Len(s)]) THEN RStrip(SubSeq(s, 1, Len(s) - 1)) ELSE s

\* str.strip()
Strip(s) == RStrip(LStrip(s))

\* re.sub(r'\n+', ' ', s)
RECURSIVE CollapseNewlines(_)
CollapseNewlines(s) ==
    IF s = <<>> THEN <<>>
    ELSE IF Head(s) = "\n"
         THEN IF Len(s) > 1 /\ s[2] = "\n"
              THEN CollapseNewlines(Tail(s))
              ELSE <<" ">> \o CollapseNewlines(Tail(s))
         ELSE <<Head(s)>> \o CollapseNewlines(Tail(s))

\* index of the first "```" at or after position i, or 0
RECURSIVE FindFence(_, _)
FindFence(s, i) ==
    IF i + 2 > Len(s) THEN 0
    ELSE IF s[i] = TICK /\ s[i + 1] = TICK /\ s[i + 2] = TICK THEN i
         ELSE FindFence(s, i + 1)

\* re.sub(r'```[\s\S]*?```', '', s): each fence up to the nearest fence
\* after it goes, with all between them
RECURSIVE RemoveCodeBlocks(_)
RemoveCodeBlocks(s) ==
    LET i == FindFence(s, 1)
        j == FindFence(s, i + 3)
    IN  IF i = 0 \/ j = 0 THEN s
        ELSE SubSeq(s, 1, i - 1) \o RemoveCodeBlocks(SubSeq(s, j + 3, Len(s)))

\* s.replace(c, '')
Without(s, c) == SelectSeq(s, LAMBDA x : x # c)

\* re.sub(r'#+\s*', '', s)
RECURSIVE RemoveHeaders(_)
RemoveHeaders(s) ==
    IF s = <<>> THEN <<>>
    ELSE IF Head(s) = HASH THEN RemoveHeaders(LStrip(Tail(s)))
         ELSE <<Head(s)>> \o RemoveHeaders(Tail(s))

\* index of the first asterisk at or after position i, or 0
RECURSIVE FindStar(_, _)
FindStar(s, i) ==
    IF i > Len(s) THEN 0
    ELSE IF s[i] = STAR THEN i ELSE FindStar(s, i + 1)

\* re.sub(r'\*\*?(.*?)\*\*?', r'\1', s): one or two asterisks, the
\* shortest text up to the next asterisk, and that asterisk with the one
\* right after it, are replaced by the text between them
RECURSIVE RemoveEmphasis(_)
RemoveEmphasis(s) ==
    LET i == FindStar(s, 1)
        two == i < Len(s) /\ s[i + 1] = STAR
        k == IF two THEN i + 1 ELSE i
        j == FindStar(s, k + 1)
        e == IF j < Len(s) /\ s[j + 1] = STAR THEN j + 1 ELSE j
    IN  IF i = 0 THEN s
        ELSE IF j # 0
             THEN SubSeq(s, 1, i - 1) \o SubSeq(s, k + 1, j - 1)
                      \o RemoveEmphasis(SubSeq(s, e + 1, Len(s)))
             ELSE IF two THEN SubSeq(s, 1, i - 1) \o SubSeq(s, i + 2, Len(s))
                  ELSE s

\* re.sub(r'\s+', ' ', s)
RECURSIVE CollapseSpaces(_)
CollapseSpaces(s) ==
    IF s = <<>> THEN <<>>
    ELSE IF IsSpace(Head(s))
         THEN IF Len(s) > 1 /\ IsSpace(s[2])
              THEN CollapseSpaces(Tail(s))
              ELSE <<" ">> \o CollapseSpaces(Tail(s))
         ELSE <<Head(s)>> \o CollapseSpaces(Tail(s))

\* s without its leading tokens that are no whitespace
RECURSIVE DropNonSpace(_)
DropNonSpace(s) ==
    IF s # <<>> /\ ~IsSpace(Head(s)) THEN DropNonSpace(Tail(s)) ELSE s

\* re.sub(r'https?://\S+', '', s): a URL goes with all that follows it up
\* to the next whitespace
RECURSIVE RemoveUrls(_)
RemoveUrls(s) ==
    IF s = <<>> THEN <<>>
    ELSE IF Head(s) = URL THEN RemoveUrls(DropNonSpace(Tail(s)))
         ELSE <<Head(s)>> \o RemoveUrls(Tail(s))

\* a character that is neither a word character, whitespace nor one of , . ! ? -
IsSymbol(c) == c \in {TICK, HASH, STAR}

\* s without its leading symbols
RECURSIVE DropSymbols(_)
DropSymbols(s) ==
    IF s # <<>> /\ IsSymbol(Head(s)) THEN DropSymbols(Tail(s)) ELSE s

\* re.sub(r'\s+[^\w\s,.!?-]+\s+', ' ', s): symbols that stand alone between
\* whitespace go, and the whitespace around them becomes one space
RECURSIVE RemoveStandalone(_)
RemoveStandalone(s) ==
    LET symbols == LStrip(s)
        after == DropSymbols(symbols)
    IN  IF s = <<>> THEN <<>>
        ELSE IF /\ IsSpace(Head(s))
                /\ after # symbols
                /\ after # <<>> /\ IsSpace(Head(after))
             THEN <<" ">> \o RemoveStandalone(LStrip(after))
             ELSE <<Head(s)>> \o RemoveStandalone(Tail(s))

\* clean_narration: its steps in the order of the code
clean_narration(narration) ==
    Strip(RemoveStandalone(RemoveUrls(CollapseSpaces(RemoveEmphasis(RemoveHeaders(
        Without(RemoveCodeBlocks(CollapseNewlines(Strip(narration))), TICK)))))))

\* index of the first end marker at or after position i, or 0
RECURSIVE FindClose(_, _)
FindClose(s, i) ==
    IF i > Len(s) THEN 0
    ELSE IF IsClose(s[i]) THEN i ELSE FindClose(s, i + 1)

\* re.findall(pattern, text): the contents of the non-overlapping
\* start ... end regions, leftmost first, each closed by the nearest end
RECURSIVE FindAll(_, _)
FindAll(s, i) ==
    IF i > Len(s) THEN <<>>
    ELSE IF IsOpen(s[i]) /\ FindClose(s, i + 1) # 0
         THEN <<SubSeq(s, i + 1, FindClose(s, i + 1) - 1)>>
                  \o FindAll(s, FindClose(s, i + 1) + 1)
         ELSE FindAll(s, i + 1)

\* ". ".join(blocks)
RECURSIVE Join(_)
Join(blocks) ==
    IF Len(blocks) = 0 THEN <<>>
    ELSE IF Len(blocks) = 1 THEN blocks[1]
    ELSE blocks[1] \o <<".", " ">> \o Join(Tail(blocks))

\* re.sub(pattern, '', text): the text outside the regions
RECURSIVE RemoveRegions(_, _)
RemoveRegions(s, i) ==
    IF i > Len(s) THEN <<>>
    ELSE IF IsOpen(s[i]) /\ FindClose(s, i + 1) # 0
         THEN RemoveRegions(s, FindClose(s, i + 1) + 1)
         ELSE <<s[i]>> \o RemoveRegions(s, i + 1)

\* remove_narration_tags, were it to leave the outer whitespace
remove_narration_tags_untrimmed(text) == RemoveRegions(text, 1)

remove_narration_tags(text) == Strip(RemoveRegions(text, 1))

\* extract_narration, were it to take the first block in both modes
extract_narration_first_only(text, multi_point) ==
    LET matches == FindAll(text, 1)
    IN  IF matches = <<>> THEN None ELSE Some(clean_narration(matches[1]))

extract_narration(text, multi_point) ==
    LET matches == FindAll(text, 1)
    IN  IF matches = <<>> THEN None
        ELSE IF multi_point
             THEN Some(Join([k \in 1..Len(matches) |-> clean_narration(matches[k])]))
             ELSE Some(clean_narration(matches[1]))

\* split_output calls extract_narration with its default, multi_point=True
split_output(text) ==
    [terminal_text |-> remove_narration_tags(text),
     narration |-> extract_narration(text, TRUE)]

----------------------------------------------------------------------------
(* Session (session.py). *)

RecognizedKeys ==
    {"tts_provider", "stt_provider", "tts_voice", "tts_speed",
     "auto_speak", "narration_enabled", "verbosity"}

\* an empty dict
EmptyMap == <<>>

DefaultVoiceSettings ==
    [tts_provider |-> "local", stt_provider |-> "openai", tts_voice |-> "default",
     tts_speed |-> "1.0", auto_speak |-> TRUE, narration_enabled |-> TRUE,
     verbosity |-> "medium"]

\* dict.update, were it to replace the dict by b
DictReplace(a, b) == b

\* dict.update: the keys of b overwrite or extend a
DictUpdate(a, b) ==
    [k \in DOMAIN a \cup DOMAIN b |-> IF k \in DOMAIN b THEN b[k] ELSE a[k]]

\* dict.get(key, default)
DictGet(d, key, default) == IF key \in DOMAIN d THEN d[key] ELSE default

\* Session.__post_init__: the defaults replace an empty (falsy) map only
PostInit(voice_settings) ==
    IF DOMAIN voice_settings = {} THEN DefaultVoiceSettings ELSE voice_settings

\* Session(session_id=id, voice_settings=...): created_at and last_activity
\* are two reads of the clock, t1 then t2
NewSession(id, voice_settings, t1, t2) ==
    [session_id |-> id, history |-> <<>>, voice_settings |-> PostInit(voice_settings),
     created_at |-> t1, last_activity |-> t2]

ConversationMessage(role, content, narration, t) ==
    [role |-> role, content |-> content, narration |-> narration, timestamp |-> t]

\* add_message, were it to put the message in front
add_message_in_front(s, role, content, narration, t1, t2) ==
    [s EXCEPT !.history = <<ConversationMessage(role, content, narration, t1)>> \o @,
              !.last_activity = t2]

\* add_message, were it to refresh last_activity before it stamps the message
add_message_stamps_late(s, role, content, narration, t1, t2) ==
    [s EXCEPT !.history = Append(@, ConversationMessage(role, content, narration, t2)),
              !.last_activity = t1]

\* Session.add_message: the message's timestamp is read at t1, last_activity at t2
add_message(s, role, content, narration, t1, t2) ==
    [s EXCEPT !.history = Append(@, ConversationMessage(role, content, narration, t1)),
              !.last_activity = t2]

\* get_history, were it to slice from the front: self.history[:limit]
get_history_oldest(s, limit) ==
    IF limit = None THEN s.history
    ELSE IF Val(limit) > 0
         THEN SubSeq(s.history, 1, Min(Val(limit), Len(s.history)))
         ELSE <<>>

\* get_history, were it to return self.history itself when no limit is given
returns_own_list_unlimited(limit) == limit = None

\* is the list get_history returns the list the session holds? No:
\* self.history.copy(), a slice and [] are lists of their own
ReturnsOwnList(limit) == FALSE

\* Session.get_history: limit is None or Some(n)
get_history(s, limit) ==
    IF limit = None THEN s.history
    ELSE IF Val(limit) > 0
         THEN SubSeq(s.history,
                     IF Val(limit) >= Len(s.history) THEN 1
                     ELSE Len(s.history) - Val(limit) + 1,
                     Len(s.history))
         ELSE <<>>

\* clear, were it to drop the oldest message only
clear_drops_oldest(s, t) ==
    [s EXCEPT !.history = IF @ = <<>> THEN @ ELSE Tail(@), !.last_activity = t]

\* clear, were it to forget to refresh last_activity
clear_no_refresh(s, t) == [s EXCEPT !.history = <<>>]

\* Session.clear
clear(s, t) == [s EXCEPT !.history = <<>>, !.last_activity = t]

\* update_voice_settings, were it to forget to refresh last_activity
update_voice_settings_no_refresh(s, settings, t) ==
    [s EXCEPT !.voice_settings = DictUpdate(@, settings)]

\* Session.update_voice_settings
update_voice_settings(s, settings, t) ==
    [s EXCEPT !.voice_settings = DictUpdate(@, settings), !.last_activity = t]

----------------------------------------------------------------------------
(* SessionManager (session.py). The operations are functions of the        *)
(* registry r = [sessions, current, issued] that return the registry after *)
(* the call and the call's return value.                                   *)

Reg == [sessions |-> sessions, current |-> current, issued |-> issued]

\* an id generator that hands out the same id again
uuid4_reused(iss) == CHOOSE i \in Ids : \A j \in Ids : i <= j

\* uuid4(): an id that was never handed out before
uuid4(iss) == CHOOSE i \in Ids \ iss : \A j \in Ids \ iss : i <= j

CanCreate(r) == Ids \ r.issued # {}

\* d[key] = value on a dict
DictSet(d, key, value) ==
    [k \in DOMAIN d \cup {key} |-> IF k = key THEN value ELSE d[k]]

\* del d[key]
DictDel(d, key) == [k \in DOMAIN d \ {key} |-> d[k]]

create_session(r, t1, t2) ==
    LET id == uuid4(r.issued)
    IN  [reg |-> [sessions |-> DictSet(r.sessions, id, NewSession(id, EmptyMap, t1, t2)),
                  current |-> Some(id),
                  issued |-> r.issued \cup {id}],
         ret |-> id]

\* SessionManager.get_session: Some(id) of the session found, or None
get_session(r, session_id) ==
    IF session_id \in DOMAIN r.sessions THEN Some(session_id) ELSE None

\* does get_or_create_session(session_id) find a session?
Resolves(r, session_id) ==
    LET sid == IF session_id = None THEN r.current ELSE session_id
    IN  sid # None /\ Val(sid) \in DOMAIN r.sessions

\* get_or_create_session, were it to fall back to the current session when
\* the named one is missing
get_or_create_session_fallback(r, session_id, t1, t2) ==
    IF session_id # None /\ Val(session_id) \in DOMAIN r.sessions
    THEN [reg |-> r, ret |-> Val(session_id)]
    ELSE IF r.current # None /\ Val(r.current) \in DOMAIN r.sessions
         THEN [reg |-> r, ret |-> Val(r.current)]
         ELSE [reg |-> [sessions |-> DictSet(r.sessions, uuid4(r.issued),
                                             NewSession(uuid4(r.issued), EmptyMap, t1, t2)),
                        current |-> Some(uuid4(r.issued)),
                        issued |-> r.issued \cup {uuid4(r.issued)}],
               ret |-> uuid4(r.issued)]

get_or_create_session(r, session_id, t1, t2) ==
    LET sid == IF session_id = None THEN r.current ELSE session_id
    IN  IF sid # None /\ Val(sid) \in DOMAIN r.sessions
        THEN [reg |-> r, ret |-> Val(sid)]
        ELSE create_session(r, t1, t2)

\* get_current_session, were it to create a session on every call
get_current_session_always_new(r, t1, t2) ==
    IF CanCreate(r) THEN create_session(r, t1, t2)
    ELSE get_or_create_session(r, r.current, t1, t2)

get_current_session(r, t1, t2) == get_or_create_session(r, r.current, t1, t2)

\* set_current_session, were it to move the pointer without looking
set_current_session_unchecked(r, session_id) ==
    [reg |-> [r EXCEPT !.current = Some(session_id)],
     ret |-> session_id \in DOMAIN r.sessions]

set_current_session(r, session_id) ==
    IF session_id \in DOMAIN r.sessions
    THEN [reg |-> [r EXCEPT !.current = Some(session_id)], ret |-> TRUE]
    ELSE [reg |-> r, ret |-> FALSE]

\* delete_session, were it to leave the current pointer alone
delete_session_keeps_pointer(r, session_id) ==
    IF session_id \in DOMAIN r.sessions
    THEN [reg |-> [r EXCEPT !.sessions = DictDel(@, session_id)], ret |-> TRUE]
    ELSE [reg |-> r, ret |-> FALSE]

delete_session(r, session_id) ==
    IF session_id \in DOMAIN r.sessions
    THEN [reg |-> [r EXCEPT !.sessions = DictDel(@, session_id),
                            !.current = IF @ = Some(session_id) THEN None ELSE @],
          ret |-> TRUE]
    ELSE [reg |-> r, ret |-> FALSE]

\* the same with "age >= max_age_hours"
StaleInclusive(r, max_age_hours, t) ==
    {id \in DOMAIN r.sessions : t - r.sessions[id].last_activity >= max_age_hours}

\* the sessions cleanup_inactive_sessions collects in to_delete at time t
Stale(r, max_age_hours, t) ==
    {id \in DOMAIN r.sessions : t - r.sessions[id].last_activity > max_age_hours}

\* the loop "for session_id in to_delete: self.delete_session(session_id)"
RECURSIVE DeleteEach(_, _)
DeleteEach(r, to_delete) ==
    IF to_delete = {} THEN r
    ELSE LET id == CHOOSE i \in to_delete : TRUE
         IN  DeleteEach(delete_session(r, id).reg, to_delete \ {id})

cleanup_inactive_sessions(r, max_age_hours, t) ==
    LET to_delete == Stale(r, max_age_hours, t)
    IN  [reg |-> DeleteEach(r, to_delete), ret |-> Cardinality(to_delete)]

----------------------------------------------------------------------------
(* VoiceController (voice_controller.py), as far as a tool call goes: the  *)
(* controller is built for one call and dropped after it.                  *)

\* Python's truth value of an optional text: neither None nor empty
Truthy(narration) == narration # None /\ Val(narration) # <<>>

\* What the world does to one attempt at speech output: whether the
\* background script is on disk, and whether Popen, the construction of the
\* provider (get_tts_provider) or the provider's speak raise.
\* A flag the code does not get to read is left FALSE.
SpeechEnvs ==
    {env \in [script_exists : BOOLEAN, popen_raises : BOOLEAN,
              tts_raises : BOOLEAN, speak_raises : BOOLEAN] :
        /\ env.script_exists => ~env.tts_raises /\ ~env.speak_raises
        /\ ~env.script_exists => ~env.popen_raises
        /\ env.tts_raises => ~env.speak_raises}

\* the world in which speech output works, through the background script
Works ==
    [script_exists |-> TRUE, popen_raises |-> FALSE,
     tts_raises |-> FALSE, speak_raises |-> FALSE]

\* the worlds that matter to a call: all of them if it may speak
SpeechEnvsFor(may_speak) == IF may_speak THEN SpeechEnvs ELSE {Works}

\* VoiceController._get_tts_provider, for a controller that holds no provider
_get_tts_provider(env) == [raised |-> env.tts_raises]

\* provider.speak(text) on the provider _get_tts_provider returns: it
\* synthesizes and plays, and returns when playback is over (waited)
ProviderSpeak(env) ==
    LET raised == _get_tts_provider(env).raised \/ env.speak_raises
    IN  [raised |-> raised, launched |-> None, waited |-> ~raised, logged |-> FALSE]

\* no speech call was made
NoSpeech == [raised |-> FALSE, launched |-> None, waited |-> FALSE, logged |-> FALSE]

\* "except Exception as e: logging.error(...)"
LogAndSwallow(r) == IF r.raised THEN [r EXCEPT !.raised = FALSE, !.logged = TRUE] ELSE r

\* the try block of speak_async: a background process when the script is
\* there (launched), the provider in the calling thread when it is not
speak_async_try(text, env) ==
    IF env.script_exists
    THEN IF env.popen_raises
         THEN [raised |-> TRUE, launched |-> None, waited |-> FALSE, logged |-> FALSE]
         ELSE [raised |-> FALSE, launched |-> Some(text), waited |-> FALSE, logged |-> FALSE]
    ELSE ProviderSpeak(env)

\* speak_async, were its try block not guarded
speak_async_unguarded(text, env) == speak_async_try(text, env)

speak_async(text, env) == LogAndSwallow(speak_async_try(text, env))

speak_sync(text, env) == LogAndSwallow(ProviderSpeak(env))

\* extract_and_speak_narration, were it to speak whatever auto_speak says
extract_and_speak_narration_always(s, text, env) ==
    LET narration == extract_narration(text, TRUE)
        speaks == /\ Truthy(narration)
                  /\ DictGet(s.voice_settings, "narration_enabled", TRUE)
        speech == IF speaks THEN speak_async(Val(narration), env) ELSE NoSpeech
    IN  [raised |-> speech.raised,
         narration |-> IF speech.raised THEN None ELSE narration,
         spoken |-> IF speaks THEN narration ELSE None,
         speech |-> speech]

\* extract_and_speak_narration: the narration it returns, the text it hands
\* to speak_async (spoken; None when it does not call it) and what became
\* of that call (speech); raised when the call raised
extract_and_speak_narration(s, text, env) ==
    LET narration == extract_narration(text, TRUE)
        speaks == /\ Truthy(narration)
                  /\ DictGet(s.voice_settings, "narration_enabled", TRUE)
                  /\ DictGet(s.voice_settings, "auto_speak", TRUE)
        speech == IF speaks THEN speak_async(Val(narration), env) ELSE NoSpeech
    IN  [raised |-> speech.raised,
         narration |-> IF speech.raised THEN None ELSE narration,
         spoken |-> IF speaks THEN narration ELSE None,
         speech |-> speech]

\* no extraction was made
NoVoice == [raised |-> FALSE, narration |-> None, spoken |-> None, speech |-> NoSpeech]

process_message_sync(s, text, extract_voice, env) ==
    IF extract_voice /\ DictGet(s.voice_settings, "narration_enabled", TRUE)
    THEN extract_and_speak_narration(s, text, env)
    ELSE NoVoice

\* What the world does to one attempt at speech input: whether the
\* construction of the provider (get_stt_provider) or its listen raise.
ListenEnvs ==
    {env \in [stt_raises : BOOLEAN, listen_raises : BOOLEAN] :
        env.stt_raises => ~env.listen_raises}

\* VoiceController._get_stt_provider, for a controller that holds no provider
_get_stt_provider(env) == [raised |-> env.stt_raises]

\* VoiceController.listen: it logs the error and raises it again
listen(env) ==
    LET raised == _get_stt_provider(env).raised \/ env.listen_raises
    IN  [raised |-> raised, text |-> IF raised THEN None ELSE Some(<<"a">>)]

----------------------------------------------------------------------------
(* The state after construction (SessionManager.__init__) and the clock.   *)

\* an invocation the client has not issued yet
IdleTask == [pc |-> "idle", session |-> None]

NoTasks == [i \in 1..MaxTasks |-> IdleTask]

Init ==
    /\ sessions = EmptyMap
    /\ current = None
    /\ issued = {}
    /\ now = 0
    /\ solo = None
    /\ playing = {}
    /\ controller = None
    /\ tasks = NoTasks
    /\ last = [op |-> "init", arg |-> None, ret |-> None]

Commit(r) ==
    /\ sessions' = r.sessions
    /\ current' = r.current
    /\ issued' = r.issued

\* the clock moves on between two calls
Tick ==
    /\ now < MaxTime
    /\ now' = now + 1
    /\ last' = [op |-> "tick", arg |-> None, ret |-> None]
    /\ UNCHANGED <<sessions, current, issued, solo, playing, controller, tasks>>

\* The two clock reads of Session() when a call creates a session (none
\* when it does not), and the reads that can follow a read of t.
CreationReads(creates) ==
    IF creates THEN {c \in ClockReads \X ClockReads : c[1] <= c[2]} ELSE {<<now, now>>}
LaterReads(t) == {u \in ClockReads : t <= u}

----------------------------------------------------------------------------
(* The registry operations as steps. *)

Create ==
    /\ CanCreate(Reg)
    /\ \E c \in CreationReads(TRUE) :
         LET res == create_session(Reg, c[1], c[2])
         IN  /\ Commit(res.reg)
             /\ last' = [op |-> "create", arg |-> None, ret |-> res.ret]
             /\ now' = c[2]
    /\ UNCHANGED <<solo, playing, controller, tasks>>

Get ==
    \E id \in ArgIds :
      /\ last' = [op |-> "get", arg |-> id, ret |-> get_session(Reg, id)]
      /\ UNCHANGED <<sessions, current, issued, now, solo, playing, controller, tasks>>

GetOrCreate ==
    \E arg \in {None} \cup {Some(id) : id \in ArgIds} :
      /\ Resolves(Reg, arg) \/ CanCreate(Reg)
      /\ \E c \in CreationReads(~Resolves(Reg, arg)) :
           LET res == get_or_create_session(Reg, arg, c[1], c[2])
           IN  /\ Commit(res.reg)
               /\ last' = [op |-> "get_or_create", arg |-> arg, ret |-> res.ret]
               /\ now' = c[2]
      /\ UNCHANGED <<solo, playing, controller, tasks>>

GetCurrent ==
    /\ Resolves(Reg, current) \/ CanCreate(Reg)
    /\ \E c \in CreationReads(~Resolves(Reg, current)) :
         LET res == get_current_session(Reg, c[1], c[2])
         IN  /\ Commit(res.reg)
             /\ last' = [op |-> "get_current", arg |-> None, ret |-> res.ret]
             /\ now' = c[2]
    /\ UNCHANGED <<solo, playing, controller, tasks>>

SetCurrent ==
    \E id \in ArgIds :
      LET res == set_current_session(Reg, id)
      IN  /\ Commit(res.reg)
          /\ last' = [op |-> "set_current", arg |-> id, ret |-> res.ret]
          /\ UNCHANGED <<now, solo, playing, controller, tasks>>

Delete ==
    \E id \in ArgIds :
      LET res == delete_session(Reg, id)
      IN  /\ Commit(res.reg)
          /\ last' = [op |-> "delete", arg |-> id, ret |-> res.ret]
          /\ UNCHANGED <<now, solo, playing, controller, tasks>>

Cleanup ==
    \E max_age_hours \in 0..MaxAge :
      LET res == cleanup_inactive_sessions(Reg, max_age_hours, now)
      IN  /\ Commit(res.reg)
          /\ last' = [op |-> "cleanup", arg |-> max_age_hours, ret |-> res.ret]
          /\ UNCHANGED <<now, solo, playing, controller, tasks>>

----------------------------------------------------------------------------
(* ToolHandler (tools.py). Every tool starts with get_current_session().   *)

\* the inputs the tools are called with
Texts == { <<>>, <<OPEN, "a", CLOSE>> }
Roles == {"user", "assistant"}
SettingsArgs == { [auto_speak |-> FALSE], [bogus |-> "x"] }
Limits == {None} \cup {Some(n) : n \in 0..MaxHistory}

\* the registry with session id replaced by s
PutSession(r, id, s) == [r EXCEPT !.sessions[id] = s]

\* the arguments send_message is called with for a text: use_voice and role
\* given or left out
SendArgs(texts) ==
    UNION { { [text |-> t],
              [text |-> t, use_voice |-> TRUE],
              [text |-> t, role |-> "assistant"],
              [text |-> t, use_voice |-> TRUE, role |-> "assistant"] } : t \in texts }

\* the current session, if there is one, holds fewer than n messages
HistoryBelow(n) ==
    Resolves(Reg, current) => Len(sessions[Val(current)].history) < n

\* the handler of send_message, called with arguments while the world
\* treats speech output as env says
SendMessage(arguments, env) ==
    LET text == arguments.text
        use_voice == DictGet(arguments, "use_voice", FALSE)
        role == DictGet(arguments, "role", "user")
    IN  /\ Resolves(Reg, current) \/ CanCreate(Reg)
        /\ \E c \in CreationReads(~Resolves(Reg, current)) :
           \E t3 \in LaterReads(c[2]) :
           \E t4 \in LaterReads(t3) :
             LET got == get_current_session(Reg, c[1], c[2])
                 session == got.reg.sessions[got.ret]
                 voice == IF use_voice
                          THEN process_message_sync(session, text, TRUE, env)
                          ELSE NoVoice
             IN  IF voice.raised
                 THEN /\ Commit(got.reg)
                      /\ last' = [op |-> "send_message", arg |-> arguments,
                                  ret |-> [kind |-> "raised"]]
                      /\ now' = c[2]
                      /\ playing' = playing
                 ELSE /\ Commit(PutSession(got.reg, got.ret,
                            add_message(session, role, text, voice.narration, t3, t4)))
                      /\ last' = [op |-> "send_message", arg |-> arguments,
                                  ret |-> [kind |-> "sent", narration |-> voice.narration,
                                           spoken |-> voice.spoken,
                                           logged |-> voice.speech.logged]]
                      /\ now' = t4
                      /\ playing' = IF voice.speech.launched = None THEN playing
                                    ELSE playing \cup {Val(voice.speech.launched)}
        /\ UNCHANGED <<solo, controller, tasks>>

\* send_message in a world where speech output works
ToolSendMessage ==
    /\ HistoryBelow(MaxHistory)
    /\ \E arguments \in SendArgs(Texts) : SendMessage(arguments, Works)

\* the handler of get_conversation_history, called with limit
GetConversationHistory(limit) ==
    /\ Resolves(Reg, current) \/ CanCreate(Reg)
    /\ \E c \in CreationReads(~Resolves(Reg, current)) :
         LET got == get_current_session(Reg, c[1], c[2])
             history == get_history(got.reg.sessions[got.ret], limit)
         IN  /\ Commit(got.reg)
             /\ last' = [op |-> "get_conversation_history", arg |-> limit,
                         ret |-> IF history = <<>>
                                 THEN [kind |-> "no_history", messages |-> <<>>]
                                 ELSE [kind |-> "listing", messages |-> history]]
             /\ now' = c[2]
    /\ UNCHANGED <<solo, playing, controller, tasks>>

ToolGetConversationHistory == \E limit \in Limits : GetConversationHistory(limit)

ToolClearConversation ==
    /\ Resolves(Reg, current) \/ CanCreate(Reg)
    /\ \E c \in CreationReads(~Resolves(Reg, current)) :
       \E t3 \in LaterReads(c[2]) :
         LET got == get_current_session(Reg, c[1], c[2])
             session == got.reg.sessions[got.ret]
         IN  /\ Commit(PutSession(got.reg, got.ret, clear(session, t3)))
             /\ last' = [op |-> "clear_conversation", arg |-> None,
                         ret |-> [kind |-> "cleared", count |-> Len(session.history)]]
             /\ now' = t3
    /\ UNCHANGED <<solo, playing, controller, tasks>>

\* the handler of set_voice_settings, called with arguments
SetVoiceSettings(arguments) ==
    /\ Resolves(Reg, current) \/ CanCreate(Reg)
    /\ \E c \in CreationReads(~Resolves(Reg, current)) :
       \E t3 \in LaterReads(c[2]) :
         LET got == get_current_session(Reg, c[1], c[2])
             session == got.reg.sessions[got.ret]
         IN  /\ Commit(PutSession(got.reg, got.ret,
                   update_voice_settings(session, arguments, t3)))
             /\ last' = [op |-> "set_voice_settings", arg |-> arguments,
                         ret |-> [kind |-> "updated", keys |-> DOMAIN arguments]]
             /\ now' = t3
    /\ UNCHANGED <<solo, playing, controller, tasks>>

ToolSetVoiceSettings == \E arguments \in SettingsArgs : SetVoiceSettings(arguments)

ToolGetVoiceSettings ==
    /\ Resolves(Reg, current) \/ CanCreate(Reg)
    /\ \E c \in CreationReads(~Resolves(Reg, current)) :
         LET got == get_current_session(Reg, c[1], c[2])
         IN  /\ Commit(got.reg)
             /\ last' = [op |-> "get_voice_settings", arg |-> None,
                         ret |-> [kind |-> "settings",
                                  settings |-> got.reg.sessions[got.ret].voice_settings]]
             /\ now' = c[2]
    /\ UNCHANGED <<solo, playing, controller, tasks>>

\* the listen tool, were it to let the error through
listen_result_unguarded(heard) ==
    IF heard.raised THEN [kind |-> "raised"]
    ELSE [kind |-> "transcribed", text |-> Val(heard.text)]

\* the try/except of the listen tool around VoiceController.listen
listen_result(heard) ==
    IF heard.raised THEN [kind |-> "error"]
    ELSE [kind |-> "transcribed", text |-> Val(heard.text)]

ToolListen ==
    \E env \in ListenEnvs :
      /\ Resolves(Reg, current) \/ CanCreate(Reg)
      /\ \E c \in CreationReads(~Resolves(Reg, current)) :
           LET got == get_current_session(Reg, c[1], c[2])
           IN  /\ Commit(got.reg)
               /\ last' = [op |-> "listen", arg |-> env, ret |-> listen_result(listen(env))]
               /\ now' = c[2]
      /\ UNCHANGED <<solo, playing, controller, tasks>>

\* a background speech process comes to its end
AudioDone ==
    /\ \E text \in playing : playing' = playing \ {text}
    /\ last' = [op |-> "audio_done", arg |-> None, ret |-> None]
    /\ UNCHANGED <<sessions, current, issued, now, solo, controller, tasks>>

ToolOps ==
    {"send_message", "get_conversation_history", "clear_conversation",
     "set_voice_settings", "get_voice_settings", "listen"}

\* server.call_tool, were it to let the exception through
call_tool_unguarded(res) == IF res.raised THEN [kind |-> "raised"] ELSE res.ret

\* server.call_tool: try / except Exception around handle_call_tool; an
\* exception becomes the text result "Error: ..."
call_tool(res) == IF res.raised THEN [kind |-> "error"] ELSE res.ret

\* a limit that is no number
BadLimit == "x"

\* calls that fail: a name no handler answers to, send_message without its
\* text, get_conversation_history with a limit that is no number
BadCalls ==
    { [name |-> "no_such_tool", arguments |-> EmptyMap],
      [name |-> "send_message", arguments |-> EmptyMap],
      [name |-> "send_message", arguments |-> [use_voice |-> TRUE]],
      [name |-> "get_conversation_history", arguments |-> [limit |-> BadLimit]] }

\* call_tool(name, arguments) on such a call: handle_call_tool answers
\* "Unknown tool" for a name without handler; send_message raises KeyError
\* on arguments["text"], its first statement; get_conversation_history
\* raises TypeError in get_history (limit > 0), after get_current_session
CallToolFailing ==
    \E call \in BadCalls :
      IF call.name \notin ToolOps
      THEN /\ last' = [op |-> "call_tool", arg |-> call,
                       ret |-> call_tool([raised |-> FALSE,
                                          ret |-> [kind |-> "unknown_tool"]])]
           /\ UNCHANGED <<sessions, current, issued, now, solo, playing, controller, tasks>>
      ELSE IF call.name = "send_message" /\ "text" \notin DOMAIN call.arguments
      THEN /\ last' = [op |-> "call_tool", arg |-> call,
                       ret |-> call_tool([raised |-> TRUE, ret |-> None])]
           /\ UNCHANGED <<sessions, current, issued, now, solo, playing, controller, tasks>>
      ELSE /\ call.name = "get_conversation_history"
           /\ call.arguments.limit = BadLimit
           /\ Resolves(Reg, current) \/ CanCreate(Reg)
           /\ \E c \in CreationReads(~Resolves(Reg, current)) :
                LET got == get_current_session(Reg, c[1], c[2])
                IN  /\ Commit(got.reg)
                    /\ last' = [op |-> "call_tool", arg |-> call,
                                ret |-> call_tool([raised |-> TRUE, ret |-> None])]
                    /\ now' = c[2]
           /\ UNCHANGED <<solo, playing, controller, tasks>>

----------------------------------------------------------------------------
(* Spec: the registry under its own operations, with set_voice_settings    *)
(* as the tool that changes what a session holds.                           *)

Next ==
    \/ Tick
    \/ Create
    \/ Get
    \/ GetOrCreate
    \/ GetCurrent
    \/ SetCurrent
    \/ Delete
    \/ Cleanup
    \/ SetVoiceSettings([auto_speak |-> FALSE])

Spec == Init /\ [][Next]_vars

(* SpecTools: the six tools on the current session, with get_current, the *)
(* clock, and cleanup as the way a session goes away.                      *)

NextTools ==
    \/ Tick
    \/ GetCurrent
    \/ Cleanup
    \/ ToolSendMessage
    \/ ToolGetConversationHistory
    \/ ToolClearConversation
    \/ ToolSetVoiceSettings
    \/ ToolGetVoiceSettings
    \/ ToolListen

SpecTools == Init /\ [][NextTools]_vars

(* SpecSession: one Session object a caller constructs and uses directly,  *)
(* outside any registry (as the unit tests do).                             *)

\* the voice_settings a caller passes to Session(...): none, one key, all keys
CtorSettings ==
    { EmptyMap,
      [tts_provider |-> "openai"],
      [DefaultVoiceSettings EXCEPT !.tts_provider = "openai"] }

SoloNew ==
    /\ CanCreate(Reg)
    /\ \E voice_settings \in CtorSettings :
       \E c \in CreationReads(TRUE) :
         LET id == uuid4(issued)
         IN  /\ solo' = Some(NewSession(id, voice_settings, c[1], c[2]))
             /\ issued' = issued \cup {id}
             /\ last' = [op |-> "Session", arg |-> voice_settings, ret |-> id]
             /\ now' = c[2]
    /\ UNCHANGED <<sessions, current, playing, controller, tasks>>

SoloAddMessage ==
    /\ solo # None
    /\ Len(Val(solo).history) < MaxHistory
    /\ \E role \in Roles, content \in Texts, narration \in {None, Some(<<"a">>)} :
       \E t1 \in ClockReads :
       \E t2 \in LaterReads(t1) :
         /\ solo' = Some(add_message(Val(solo), role, content, narration, t1, t2))
         /\ last' = [op |-> "add_message", arg |-> None, ret |-> None]
         /\ now' = t2
    /\ UNCHANGED <<sessions, current, issued, playing, controller, tasks>>

SoloGetHistory ==
    /\ solo # None
    /\ \E limit \in Limits :
         last' = [op |-> "get_history", arg |-> limit, ret |-> get_history(Val(solo), limit)]
    /\ UNCHANGED <<sessions, current, issued, now, solo, playing, controller, tasks>>

SoloClear ==
    /\ solo # None
    /\ \E t \in ClockReads :
         /\ solo' = Some(clear(Val(solo), t))
         /\ now' = t
    /\ last' = [op |-> "clear", arg |-> None, ret |-> None]
    /\ UNCHANGED <<sessions, current, issued, playing, controller, tasks>>

SoloUpdateVoiceSettings ==
    /\ solo # None
    /\ \E settings \in SettingsArgs :
       \E t \in ClockReads :
         /\ solo' = Some(update_voice_settings(Val(solo), settings, t))
         /\ last' = [op |-> "update_voice_settings", arg |-> settings, ret |-> None]
         /\ now' = t
    /\ UNCHANGED <<sessions, current, issued, playing, controller, tasks>>

NextSession ==
    \/ Tick
    \/ SoloNew
    \/ SoloAddMessage
    \/ SoloGetHistory
    \/ SoloClear
    \/ SoloUpdateVoiceSettings

SpecSession == Init /\ [][NextSession]_vars

(* SpecVoice: the tools that speak and listen, and a VoiceController a     *)
(* caller builds on the current session to call one of its methods, in     *)
(* every world speech output and input can meet.                           *)

\* no marker, an empty block, one block, two blocks
VoiceTexts ==
    { <<"a">>, <<OPEN, CLOSE>>, <<OPEN, "a", CLOSE>>,
      <<OPEN, "a", CLOSE, OPEN, "b", CLOSE>> }

VoiceSettingsArgs ==
    { [auto_speak |-> FALSE], [narration_enabled |-> FALSE],
      [auto_speak |-> TRUE, narration_enabled |-> TRUE] }

\* what a speech call leaves playing in the background
Launch(speech) ==
    IF speech.launched = None THEN playing ELSE playing \cup {Val(speech.launched)}

\* send_message as the first message of a history, with the role left out
VoiceSendMessage ==
    /\ Resolves(Reg, current) => sessions[Val(current)].history = <<>>
    /\ \E arguments \in {a \in SendArgs(VoiceTexts) : "role" \notin DOMAIN a} :
       \E env \in SpeechEnvsFor(DictGet(arguments, "use_voice", FALSE)) :
         SendMessage(arguments, env)

VoiceSetVoiceSettings == \E arguments \in VoiceSettingsArgs : SetVoiceSettings(arguments)

\* VoiceController(session).extract_and_speak_narration(text)
VcExtractAndSpeak ==
    /\ Resolves(Reg, current)
    /\ \E text \in VoiceTexts, env \in SpeechEnvs :
         LET r == extract_and_speak_narration(sessions[Val(current)], text, env)
         IN  /\ last' = [op |-> "extract_and_speak_narration", arg |-> text,
                         ret |-> [raised |-> r.raised, narration |-> r.narration,
                                  spoken |-> r.spoken, logged |-> r.speech.logged]]
             /\ playing' = Launch(r.speech)
    /\ UNCHANGED <<sessions, current, issued, now, solo, controller, tasks>>

\* VoiceController(session).speak_async(text)
VcSpeakAsync ==
    /\ Resolves(Reg, current)
    /\ \E env \in SpeechEnvs :
         LET r == speak_async(<<"a">>, env)
         IN  /\ last' = [op |-> "speak_async", arg |-> <<"a">>, ret |-> r]
             /\ playing' = Launch(r)
    /\ UNCHANGED <<sessions, current, issued, now, solo, controller, tasks>>

\* VoiceController(session).speak_sync(text)
VcSpeakSync ==
    /\ Resolves(Reg, current)
    /\ \E env \in SpeechEnvs :
         LET r == speak_sync(<<"a">>, env)
         IN  /\ last' = [op |-> "speak_sync", arg |-> <<"a">>, ret |-> r]
             /\ playing' = Launch(r)
    /\ UNCHANGED <<sessions, current, issued, now, solo, controller, tasks>>

\* VoiceController(session).listen()
VcListen ==
    /\ Resolves(Reg, current)
    /\ \E env \in ListenEnvs :
         last' = [op |-> "VoiceController.listen", arg |-> env, ret |-> listen(env)]
    /\ UNCHANGED <<sessions, current, issued, now, solo, playing, controller, tasks>>

NextVoice ==
    \/ VoiceSendMessage
    \/ VoiceSetVoiceSettings
    \/ ToolClearConversation
    \/ ToolListen
    \/ VcExtractAndSpeak
    \/ VcSpeakAsync
    \/ VcSpeakSync
    \/ VcListen
    \/ AudioDone

SpecVoice == Init /\ [][NextVoice]_vars

(* SpecChat: one conversation of several messages: send_message with      *)
(* texts that hold no narration, get_conversation_history with every       *)
(* limit, clear_conversation, and a change of settings.                    *)

\* the empty string, whitespace only, a word
ChatTexts == { <<>>, <<" ">>, <<"a">> }

\* limit left out, 0, and every size up to one more than a history can hold
ChatLimits == {None} \cup {Some(n) : n \in 0..(MaxChat + 1)}

ChatSendMessage ==
    /\ HistoryBelow(MaxChat)
    /\ \E arguments \in SendArgs(ChatTexts) : SendMessage(arguments, Works)

ChatGetConversationHistory == \E limit \in ChatLimits : GetConversationHistory(limit)

NextChat ==
    \/ ChatSendMessage
    \/ ChatGetConversationHistory
    \/ ToolClearConversation
    \/ SetVoiceSettings([auto_speak |-> FALSE])
    \/ CallToolFailing

SpecChat == Init /\ [][NextChat]_vars

----------------------------------------------------------------------------
(* SpecExtract: the extractor's functions of a text (extractor.py), each   *)
(* applied to every text of up to MaxText tokens over the markers in both  *)
(* cases, a word and a space.                                              *)

\* all sequences over S of length up to n
SeqsUpTo(S, n) == UNION {[1..k -> S] : k \in 0..n}

ExtractTexts == SeqsUpTo({OPEN, open_lower, CLOSE, close_lower, "a", " "}, MaxText)

\* the caller holds a text; nothing of the server is touched
InitExtract ==
    /\ sessions = EmptyMap
    /\ current = None
    /\ issued = {}
    /\ now = 0
    /\ solo = None
    /\ playing = {}
    /\ controller = None
    /\ tasks = NoTasks
    /\ \E text \in ExtractTexts : last = [op |-> "text", arg |-> text, ret |-> None]

ExtractNarration ==
    /\ last.op = "text"
    /\ \E multi_point \in BOOLEAN :
          last' = [op |-> "extract_narration",
                   arg |-> [text |-> last.arg, multi_point |-> multi_point],
                   ret |-> extract_narration(last.arg, multi_point)]
    /\ UNCHANGED <<sessions, current, issued, now, solo, playing, controller, tasks>>

RemoveNarrationTags ==
    /\ last.op = "text"
    /\ last' = [op |-> "remove_narration_tags", arg |-> last.arg,
                ret |-> remove_narration_tags(last.arg)]
    /\ UNCHANGED <<sessions, current, issued, now, solo, playing, controller, tasks>>

SplitOutput ==
    /\ last.op = "text"
    /\ last' = [op |-> "split_output", arg |-> last.arg, ret |-> split_output(last.arg)]
    /\ UNCHANGED <<sessions, current, issued, now, solo, playing, controller, tasks>>

NextExtract ==
    \/ ExtractNarration
    \/ RemoveNarrationTags
    \/ SplitOutput

SpecExtract == InitExtract /\ [][NextExtract]_vars

----------------------------------------------------------------------------
(* SpecClean: clean_narration applied to every raw narration of up to      *)
(* MaxRaw tokens, and applied again to what it returned.                   *)

RawNarrations == SeqsUpTo({"a", " ", "\n", TICK, HASH, STAR, URL}, MaxRaw)

InitClean ==
    /\ sessions = EmptyMap
    /\ current = None
    /\ issued = {}
    /\ now = 0
    /\ solo = None
    /\ playing = {}
    /\ controller = None
    /\ tasks = NoTasks
    /\ \E raw \in RawNarrations : last = [op |-> "narration", arg |-> raw, ret |-> None]

CleanNarration ==
    /\ last.op = "narration"
    /\ last' = [op |-> "clean_narration", arg |-> last.arg,
                ret |-> clean_narration(last.arg)]
    /\ UNCHANGED <<sessions, current, issued, now, solo, playing, controller, tasks>>

\* the caller cleans what the first call returned
CleanAgain ==
    /\ last.op = "clean_narration"
    /\ last' = [op |-> "clean_again", arg |-> last.ret,
                ret |-> clean_narration(last.ret)]
    /\ UNCHANGED <<sessions, current, issued, now, solo, playing, controller, tasks>>

NextClean ==
    \/ CleanNarration
    \/ CleanAgain

SpecClean == InitClean /\ [][NextClean]_vars

----------------------------------------------------------------------------
(* SpecController: a VoiceController a caller keeps over several calls     *)
(* (voice_controller.py), bound to the current session. A provider handle  *)
(* is what get_tts_provider or get_stt_provider built it from.             *)

\* what _get_tts_provider reads from the session's settings for a new provider
TtsConfig(s) ==
    [provider |-> DictGet(s.voice_settings, "tts_provider", "local"),
     voice |-> DictGet(s.voice_settings, "tts_voice", "default"),
     speed |-> DictGet(s.voice_settings, "tts_speed", "1.0")]

\* what _get_stt_provider reads from the session's settings for a new provider
SttConfig(s) == [provider |-> DictGet(s.voice_settings, "stt_provider", "openai")]

\* VoiceController.__init__
NewController(id) == [session |-> id, tts_provider |-> None, stt_provider |-> None]

\* _get_tts_provider on a kept controller: the provider it holds, or one
\* built from the settings and kept, unless the construction raises
KeepTtsProvider(c, s, raises) ==
    IF c.tts_provider = None /\ ~raises
    THEN [c EXCEPT !.tts_provider = Some(TtsConfig(s))]
    ELSE c

\* _get_stt_provider on a kept controller
KeepSttProvider(c, s, raises) ==
    IF c.stt_provider = None /\ ~raises
    THEN [c EXCEPT !.stt_provider = Some(SttConfig(s))]
    ELSE c

TtsKeys == {"tts_provider", "tts_voice", "tts_speed"}

\* update_settings, were it to leave the providers it holds alone
Invalidate_nothing(c, settings) == c

\* the second half of update_settings: a provider goes when the call names
\* one of its settings
Invalidate(c, settings) ==
    [c EXCEPT !.tts_provider = IF DOMAIN settings \cap TtsKeys # {} THEN None ELSE @,
              !.stt_provider = IF "stt_provider" \in DOMAIN settings THEN None ELSE @]

\* the settings the calls of this specification give
ControllerSettings ==
    { [tts_provider |-> "local"], [tts_provider |-> "openai"],
      [tts_voice |-> "nova"], [stt_provider |-> "local"],
      [stt_provider |-> "openai"], [auto_speak |-> FALSE],
      [tts_provider |-> "openai", stt_provider |-> "local"] }

\* the session the kept controller is bound to
Bound == sessions[Val(controller).session]

\* VoiceController(session_manager.get_current_session()), kept
ControllerNew ==
    /\ Resolves(Reg, current)
    /\ controller' = Some(NewController(Val(current)))
    /\ last' = [op |-> "VoiceController", arg |-> Val(current), ret |-> None]
    /\ UNCHANGED <<sessions, current, issued, now, solo, playing, tasks>>

\* controller.speak_sync(text)
ControllerSpeakSync ==
    /\ controller # None
    /\ \E env \in SpeechEnvsFor(TRUE) :
         LET r == speak_sync(<<"a">>, env)
         IN  /\ controller' = Some(KeepTtsProvider(Val(controller), Bound,
                                                    _get_tts_provider(env).raised))
             /\ last' = [op |-> "speak_sync", arg |-> <<"a">>, ret |-> r]
             /\ playing' = Launch(r)
    /\ UNCHANGED <<sessions, current, issued, now, solo, tasks>>

\* controller.speak_async(text): it asks for the provider where the
\* background script is missing
ControllerSpeakAsync ==
    /\ controller # None
    /\ \E env \in SpeechEnvsFor(TRUE) :
         LET r == speak_async(<<"a">>, env)
         IN  /\ controller' = IF env.script_exists THEN controller
                              ELSE Some(KeepTtsProvider(Val(controller), Bound,
                                                        _get_tts_provider(env).raised))
             /\ last' = [op |-> "speak_async", arg |-> <<"a">>, ret |-> r]
             /\ playing' = Launch(r)
    /\ UNCHANGED <<sessions, current, issued, now, solo, tasks>>

\* controller.listen()
ControllerListen ==
    /\ controller # None
    /\ \E env \in ListenEnvs :
         /\ controller' = Some(KeepSttProvider(Val(controller), Bound,
                                                _get_stt_provider(env).raised))
         /\ last' = [op |-> "VoiceController.listen", arg |-> env, ret |-> listen(env)]
    /\ UNCHANGED <<sessions, current, issued, now, solo, playing, tasks>>

\* controller.update_settings(**settings); held is what the controller held
\* when it was called
ControllerUpdateSettings ==
    /\ controller # None
    /\ \E settings \in ControllerSettings :
       \E t \in LaterReads(now) :
         /\ sessions' = [sessions EXCEPT ![Val(controller).session] =
                             update_voice_settings(@, settings, t)]
         /\ controller' = Some(Invalidate(Val(controller), settings))
         /\ last' = [op |-> "update_settings", arg |-> settings, ret |-> None,
                     held |-> Val(controller), was |-> Bound.voice_settings]
         /\ now' = t
    /\ UNCHANGED <<current, issued, solo, playing, tasks>>

\* session.update_voice_settings(settings), by a caller that holds the session
SessionUpdateVoiceSettings ==
    /\ controller # None
    /\ \E settings \in ControllerSettings :
       \E t \in LaterReads(now) :
         /\ sessions' = [sessions EXCEPT ![Val(controller).session] =
                             update_voice_settings(@, settings, t)]
         /\ last' = [op |-> "update_voice_settings", arg |-> settings, ret |-> None]
         /\ now' = t
    /\ UNCHANGED <<current, issued, solo, playing, controller, tasks>>

\* the set_voice_settings tool: update_settings on a controller of its own
ControllerSetVoiceSettings == \E arguments \in ControllerSettings : SetVoiceSettings(arguments)

NextController ==
    \/ GetCurrent
    \/ ControllerNew
    \/ ControllerSpeakSync
    \/ ControllerSpeakAsync
    \/ ControllerListen
    \/ ControllerUpdateSettings
    \/ SessionUpdateVoiceSettings
    \/ ControllerSetVoiceSettings

SpecController == Init /\ [][NextController]_vars

----------------------------------------------------------------------------
(* SpecTasks: MaxTasks send_message invocations the client issues at once  *)
(* on an empty registry (server.py call_tool, tools.py send_message). The  *)
(* event loop runs one handler at a time and takes a task up only where    *)
(* the running one suspends. A handler goes through get_current_session    *)
(* (look the session up, create one if there is none) and add_message.     *)

\* the handler, were it to suspend at every position
suspends_everywhere(pc) == TRUE

\* does the handler hand control back to the event loop at position pc?
\* call_tool, handle_call_tool and send_message await only each other, and
\* what they call (SessionManager, VoiceController, Session) is synchronous
Suspends(pc) == FALSE

\* the positions inside the handler
Inside == {"creating", "holding"}

\* the event loop can give task i the turn
Runs(i) == \A j \in DOMAIN tasks \ {i} : tasks[j].pc \in Inside => Suspends(tasks[j].pc)

\* the client issues invocation i
TaskCall(i) ==
    /\ tasks[i].pc = "idle"
    /\ tasks' = [tasks EXCEPT ![i].pc = "called"]
    /\ last' = [op |-> "issue", arg |-> i, ret |-> None]
    /\ UNCHANGED <<sessions, current, issued, now, solo, playing, controller>>

\* get_or_create_session: "if session_id and session_id in self.sessions"
TaskResolve(i) ==
    /\ tasks[i].pc = "called"
    /\ Runs(i)
    /\ tasks' = [tasks EXCEPT ![i] =
                    IF Resolves(Reg, current)
                    THEN [pc |-> "holding", session |-> current]
                    ELSE [pc |-> "creating", session |-> None]]
    /\ last' = [op |-> "get_current_session", arg |-> i, ret |-> Resolves(Reg, current)]
    /\ UNCHANGED <<sessions, current, issued, now, solo, playing, controller>>

\* get_or_create_session: "return self.create_session()"
TaskCreate(i) ==
    /\ tasks[i].pc = "creating"
    /\ Runs(i)
    /\ CanCreate(Reg)
    /\ \E c \in CreationReads(TRUE) :
         LET res == create_session(Reg, c[1], c[2])
         IN  /\ Commit(res.reg)
             /\ tasks' = [tasks EXCEPT ![i] = [pc |-> "holding", session |-> Some(res.ret)]]
             /\ last' = [op |-> "create_session", arg |-> i, ret |-> res.ret]
             /\ now' = c[2]
    /\ UNCHANGED <<solo, playing, controller>>

\* session.add_message(role, content, narration) and the handler's return
TaskAppend(i) ==
    /\ tasks[i].pc = "holding"
    /\ Runs(i)
    /\ \E t1 \in LaterReads(now) :
       \E t2 \in LaterReads(t1) :
         /\ sessions' = [sessions EXCEPT ![Val(tasks[i].session)] =
                             add_message(@, "user", <<"a">>, None, t1, t2)]
         /\ now' = t2
    /\ tasks' = [tasks EXCEPT ![i].pc = "done"]
    /\ last' = [op |-> "send_message", arg |-> [text |-> <<"a">>],
                ret |-> [kind |-> "sent", narration |-> None, spoken |-> None,
                         logged |-> FALSE]]
    /\ UNCHANGED <<current, issued, solo, playing, controller>>

NextTasks ==
    \E i \in 1..MaxTasks :
        \/ TaskCall(i)
        \/ TaskResolve(i)
        \/ TaskCreate(i)
        \/ TaskAppend(i)

SpecTasks == Init /\ [][NextTasks]_vars

----------------------------------------------------------------------------
(* SpecRead: the operations that read (the get_conversation_history and    *)
(* get_voice_settings tools, the resources of resources.py, and a caller   *)
(* of Session.get_history that changes the list it got) among send_message *)
(* and set_voice_settings calls.                                           *)

\* the resources a client asks for: conversation://current, /history,
\* /settings, /session/<id>, and a URI the server does not know
Uris ==
    {[kind |-> k] : k \in {"current", "history", "settings", "other"}}
        \cup {[kind |-> "session", id |-> id] : id \in ArgIds}

\* ResourceHandler.read_session
read_session(r, session_id) ==
    IF get_session(r, session_id) = None
    THEN [raised |-> TRUE, content |-> None]
    ELSE [raised |-> FALSE, content |-> Some(r.sessions[session_id])]

\* what a resource of the current session shows of it
Content(uri, s) ==
    IF uri.kind = "current" THEN s
    ELSE IF uri.kind = "history"
         THEN [session_id |-> s.session_id, message_count |-> Len(s.history),
               messages |-> s.history]
         ELSE s.voice_settings

\* handle_read_resource: the content, "Unknown resource" for a URI it does
\* not know, "Error reading resource" where the read raised
ReadResource ==
    \E uri \in Uris :
        /\ IF uri.kind = "other"
           THEN /\ last' = [op |-> "read_resource", arg |-> uri, ret |-> [kind |-> "unknown"]]
                /\ UNCHANGED <<sessions, current, issued, now>>
           ELSE IF uri.kind = "session"
           THEN LET res == read_session(Reg, uri.id)
                IN  /\ last' = [op |-> "read_resource", arg |-> uri,
                                ret |-> IF res.raised THEN [kind |-> "error"]
                                        ELSE [kind |-> "content", content |-> Val(res.content)]]
                    /\ UNCHANGED <<sessions, current, issued, now>>
           ELSE /\ Resolves(Reg, current) \/ CanCreate(Reg)
                /\ \E c \in CreationReads(~Resolves(Reg, current)) :
                     LET got == get_current_session(Reg, c[1], c[2])
                     IN  /\ Commit(got.reg)
                         /\ last' = [op |-> "read_resource", arg |-> uri,
                                     ret |-> [kind |-> "content",
                                              content |-> Content(uri, got.reg.sessions[got.ret])]]
                         /\ now' = c[2]
        /\ UNCHANGED <<solo, playing, controller, tasks>>

\* returned = session.get_history(limit); returned.append(message), by a
\* caller that holds the current session
GetHistoryAndAppend ==
    /\ Resolves(Reg, current)
    /\ \E limit \in Limits :
         LET returned == get_history(sessions[Val(current)], limit)
             message == ConversationMessage("user", <<"a">>, None, now)
         IN  /\ sessions' = [sessions EXCEPT ![Val(current)].history =
                                 IF ReturnsOwnList(limit) THEN Append(@, message) ELSE @]
             /\ last' = [op |-> "get_history", arg |-> limit,
                         ret |-> Append(returned, message)]
    /\ UNCHANGED <<current, issued, now, solo, playing, controller, tasks>>

NextRead ==
    \/ ToolSendMessage
    \/ ToolSetVoiceSettings
    \/ ToolGetConversationHistory
    \/ ToolGetVoiceSettings
    \/ ReadResource
    \/ GetHistoryAndAppend

SpecRead == Init /\ [][NextRead]_vars

----------------------------------------------------------------------------
(* The claims. *)

\* the session the current pointer names, before and after a step
Cur == sessions[Val(current)]
CurAfter == sessions'[Val(current')]
HasCurrent == current # None /\ Val(current) \in DOMAIN sessions

\* C1: in every reachable state of the registry under create, get,
\* get_or_create, get_current, set_current, delete and cleanup, the current
\* pointer is absent or names a key of sessions.
C1_PointerNeverDangles == current = None \/ Val(current) \in DOMAIN sessions

\* a delete or a cleanup has just removed the current session while another
\* session stays in the registry
C1_Witness ==
    /\ last.op \in {"delete", "cleanup"}
    /\ current = None
    /\ DOMAIN sessions # {}

\* C2: delete(id) of the current session leaves the pointer absent, and the
\* get_current() that follows a delete which left it absent creates one
\* session, makes it current, and gives it an id that is neither the
\* deleted one nor any id issued before.
C2_DeleteCurrentThenFresh ==
    [][ /\ (last'.op = "delete" /\ current = Some(last'.arg)) =>
              /\ last'.ret = TRUE
              /\ current' = None
              /\ last'.arg \notin DOMAIN sessions'
        /\ (/\ last.op = "delete" /\ last.ret = TRUE /\ current = None
            /\ last'.op = "get_current") =>
              /\ last'.ret # last.arg
              /\ last'.ret \notin issued
              /\ current' = Some(last'.ret)
              /\ last'.ret \notin DOMAIN sessions
              /\ DOMAIN sessions' = DOMAIN sessions \cup {last'.ret}
      ]_vars

\* get_current has just created session 2 at hour 0, where only delete can
\* have removed session 1, the one that was current
C2_Witness ==
    /\ last.op = "get_current"
    /\ last.ret = 2
    /\ now = 0
    /\ issued = {1, 2}
    /\ DOMAIN sessions = {2}
    /\ current = Some(2)

\* C3: get_or_create(arg) returns the named session when arg names one, and
\* changes nothing; else, when arg is absent and a current session exists,
\* returns the current session and changes nothing; else creates exactly
\* one session, which becomes current.
C3_GetOrCreateResolution ==
    [][ last'.op = "get_or_create" =>
          IF last'.arg # None /\ Val(last'.arg) \in DOMAIN sessions
          THEN /\ last'.ret = Val(last'.arg)
               /\ UNCHANGED <<sessions, current, issued>>
          ELSE IF last'.arg = None /\ HasCurrent
          THEN /\ last'.ret = Val(current)
               /\ UNCHANGED <<sessions, current, issued>>
          ELSE /\ last'.ret \notin DOMAIN sessions
               /\ DOMAIN sessions' = DOMAIN sessions \cup {last'.ret}
               /\ \A id \in DOMAIN sessions : sessions'[id] = sessions[id]
               /\ sessions'[last'.ret].history = <<>>
               /\ current' = Some(last'.ret)
      ]_vars

\* get_or_create was called with an id that names no session while another
\* session was there: it created a new one
C3_Witness ==
    /\ last.op = "get_or_create"
    /\ last.arg # None
    /\ last.ret # Val(last.arg)
    /\ Cardinality(DOMAIN sessions) >= 2
    /\ current = Some(last.ret)

\* C4: every tool operation and every get_current leaves a current session
\* in place: the one that was current before, with no session added, or,
\* when there was none, exactly one new session.
C4_ToolsShareOneSession ==
    [][ last'.op \in ToolOps \cup {"get_current"} =>
          /\ current' # None
          /\ Val(current') \in DOMAIN sessions'
          /\ IF HasCurrent
             THEN current' = current /\ DOMAIN sessions' = DOMAIN sessions
             ELSE /\ Val(current') \notin DOMAIN sessions
                  /\ DOMAIN sessions' = DOMAIN sessions \cup {Val(current')}
      ]_vars

\* get_history lists a message of session 1, the only session ever created,
\* after a change of settings on it
C4_Witness ==
    /\ last.op = "get_conversation_history"
    /\ last.ret.kind = "listing"
    /\ issued = {1}
    /\ current = Some(1)
    /\ "bogus" \in DOMAIN sessions[1].voice_settings

\* C5: set_current and delete with an id that is no key of sessions return
\* false and leave sessions and the pointer as they were; set_current with
\* an existing id returns true, sets the pointer to it and leaves sessions
\* as they were.
C5_UnknownIdChangesNothing ==
    [][ /\ (last'.op \in {"set_current", "delete"} /\ last'.arg \notin DOMAIN sessions) =>
              /\ last'.ret = FALSE
              /\ UNCHANGED <<sessions, current, issued>>
        /\ (last'.op = "set_current" /\ last'.arg \in DOMAIN sessions) =>
              /\ last'.ret = TRUE
              /\ current' = Some(last'.arg)
              /\ UNCHANGED <<sessions, issued>>
      ]_vars

\* set_current has just failed on an unknown id, with a current session in
\* place
C5_Witness ==
    /\ last.op = "set_current"
    /\ last.ret = FALSE
    /\ current # None
    /\ last.arg # Val(current)

\* C6: cleanup(max_age) removes exactly the sessions whose age is greater
\* than max_age, returns how many those are, and leaves every other session
\* as it was.
C6_CleanupRemovesExactlyTheStale ==
    [][ last'.op = "cleanup" =>
          LET gone == {id \in DOMAIN sessions :
                          now - sessions[id].last_activity > last'.arg}
          IN  /\ DOMAIN sessions' = DOMAIN sessions \ gone
              /\ last'.ret = Cardinality(gone)
              /\ \A id \in DOMAIN sessions' : sessions'[id] = sessions[id]
      ]_vars

\* a cleanup has removed one session and kept one whose age equals max_age
C6_Witness ==
    /\ last.op = "cleanup"
    /\ last.ret = 1
    /\ last.arg >= 1
    /\ \E id \in DOMAIN sessions : now - sessions[id].last_activity = last.arg

ReadToolOps == {"get_conversation_history", "get_voice_settings", "listen"}
MutatingToolOps == {"send_message", "clear_conversation", "set_voice_settings"}

\* C7, as claimed: each of the six tool operations refreshes the current
\* session's last_activity, so that a cleanup(max_age) with max_age > 0
\* that follows a tool operation at once never removes the current session.
C7_AnyToolRefreshes ==
    [][ /\ last'.op \in ToolOps => CurAfter.last_activity = now'
        /\ (last.op \in ToolOps /\ last'.op = "cleanup" /\ last'.arg > 0) =>
              current' = current
      ]_vars

\* C7, amended: send_message, clear_conversation and set_voice_settings
\* refresh the current session's last_activity; get_history,
\* get_voice_settings and listen leave it as it was; and cleanup(max_age)
\* keeps the current session whenever its last_activity is less than
\* max_age old.
C7_MutatingToolsRefresh ==
    [][ /\ last'.op \in MutatingToolOps => CurAfter.last_activity = now'
        /\ (last'.op \in ReadToolOps /\ HasCurrent) =>
              CurAfter.last_activity = Cur.last_activity
        /\ (/\ last'.op = "cleanup" /\ HasCurrent
            /\ now - Cur.last_activity < last'.arg) =>
              /\ current' = current
              /\ Val(current) \in DOMAIN sessions'
      ]_vars

\* a cleanup with max_age >= 1 has kept the current session, which holds a
\* message sent in the present hour, later than the session's creation
C7_Witness ==
    /\ last.op = "cleanup"
    /\ last.arg >= 1
    /\ HasCurrent
    /\ Cur.history # <<>>
    /\ Cur.last_activity = now
    /\ Cur.created_at < now

\* C8: no step lowers the last_activity of a session, and send_message,
\* clear_conversation and set_voice_settings set it to the time of the call.
C8_LastActivityMonotone ==
    [][ /\ \A id \in DOMAIN sessions \cap DOMAIN sessions' :
              sessions'[id].last_activity >= sessions[id].last_activity
        /\ last'.op \in MutatingToolOps =>
              /\ CurAfter.last_activity = now'
              /\ now' >= now
      ]_vars

\* settings were just updated on a session created in an earlier hour
C8_Witness ==
    /\ last.op = "set_voice_settings"
    /\ HasCurrent
    /\ Cur.created_at < now
    /\ Cur.last_activity = now

\* C9, as claimed: a Session holds all seven recognized keys in
\* voice_settings from construction on, whatever settings the caller
\* supplied.
C9_SettingsComplete ==
    solo # None => RecognizedKeys \subseteq DOMAIN Val(solo).voice_settings

\* C10, as claimed: no session's voice_settings holds a key outside the
\* seven recognized ones.
C10_NoUnknownKeys ==
    \A id \in DOMAIN sessions : DOMAIN sessions[id].voice_settings \subseteq RecognizedKeys

\* the message send_message has just stored
Stored == Cur.history[Len(Cur.history)]

\* C11: set_voice_settings(partial_map) is a merge: afterwards every
\* supplied key holds the supplied value, every other key holds the value
\* it had before (the defaults, on a session the call created), no other
\* key appears, and the session's id and history are as before.
C11_SettingsMerge ==
    [][ last'.op = "set_voice_settings" =>
          LET before == IF HasCurrent THEN Cur.voice_settings ELSE DefaultVoiceSettings
              history == IF HasCurrent THEN Cur.history ELSE <<>>
              after == CurAfter.voice_settings
          IN  /\ DOMAIN after = DOMAIN before \cup DOMAIN last'.arg
              /\ \A k \in DOMAIN last'.arg : after[k] = last'.arg[k]
              /\ \A k \in DOMAIN before \ DOMAIN last'.arg : after[k] = before[k]
              /\ CurAfter.history = history
              /\ CurAfter.session_id = Val(current')
              /\ HasCurrent => current' = current /\ CurAfter.session_id = Cur.session_id
      ]_vars

\* narration_enabled was just switched off on a session that holds a
\* message and on which auto_speak had been switched off before
C11_Witness ==
    /\ last.op = "set_voice_settings"
    /\ last.arg = [narration_enabled |-> FALSE]
    /\ HasCurrent
    /\ Cur.voice_settings.auto_speak = FALSE
    /\ Cur.voice_settings.tts_provider = "local"
    /\ Cur.history # <<>>

\* the text holds a start marker with an end marker after it
HasMarkerPair(text) ==
    \E i, j \in 1..Len(text) : i < j /\ text[i] = OPEN /\ text[j] = CLOSE

\* C12, as claimed: extract_and_speak calls speak_async exactly when the
\* text holds a marker pair and narration_enabled and auto_speak are true,
\* and it returns the extracted narration, none exactly when the text holds
\* no marker pair.
C12_SpeaksIffFound ==
    last.op = "extract_and_speak_narration" =>
        /\ last.ret.spoken # None <=>
              /\ HasMarkerPair(last.arg)
              /\ Cur.voice_settings.narration_enabled
              /\ Cur.voice_settings.auto_speak
        /\ last.ret.narration = None <=> ~HasMarkerPair(last.arg)

\* C12, amended: extract_and_speak calls speak_async, on the narration it
\* returns, exactly when that narration is not empty and narration_enabled
\* and auto_speak are true; it never raises, and in every case it returns
\* the extracted narration, none exactly when the text holds no marker pair.
C12_SpeaksIffNonEmpty ==
    last.op = "extract_and_speak_narration" =>
        /\ last.ret.spoken # None <=>
              /\ last.ret.narration # None
              /\ Val(last.ret.narration) # <<>>
              /\ Cur.voice_settings.narration_enabled
              /\ Cur.voice_settings.auto_speak
        /\ last.ret.spoken # None => last.ret.spoken = last.ret.narration
        /\ ~last.ret.raised
        /\ last.ret.narration = None <=> ~HasMarkerPair(last.arg)
        /\ last.ret.narration \in
              {extract_narration(last.arg, TRUE), extract_narration(last.arg, FALSE)}

\* with both settings on, the empty narration of an empty block was
\* returned and not spoken
C12_Witness ==
    /\ last.op = "extract_and_speak_narration"
    /\ last.arg = <<OPEN, CLOSE>>
    /\ last.ret.narration = Some(<<>>)
    /\ last.ret.spoken = None
    /\ Cur.voice_settings.narration_enabled
    /\ Cur.voice_settings.auto_speak

\* the text holds two complete marker pairs or more
TwoBlocks(text) == Len(FindAll(text, 1)) >= 2

\* C13, as claimed: for a text with two or more complete marker pairs, the
\* narration extract_and_speak returns, and the narration send_message
\* with use_voice stores on the message, is the cleaned content of the
\* first block only.
C13_FirstBlockOnly ==
    /\ (last.op = "extract_and_speak_narration" /\ TwoBlocks(last.arg)) =>
          last.ret.narration = Some(clean_narration(FindAll(last.arg, 1)[1]))
    /\ (/\ last.op = "send_message" /\ TwoBlocks(last.arg.text)
        /\ DictGet(last.arg, "use_voice", FALSE)
        /\ Cur.voice_settings.narration_enabled) =>
          Stored.narration = Some(clean_narration(FindAll(last.arg.text, 1)[1]))

\* C14: no failure of speech output comes out of speak_async, speak_sync,
\* extract_and_speak or send_message: extract_and_speak returns the
\* narration it returns where speech works, and send_message appends the
\* message with the narration it stores where speech works.
C14_SpeechFailureIsolated ==
    /\ last.op \in {"speak_async", "speak_sync"} => ~last.ret.raised
    /\ last.op = "extract_and_speak_narration" =>
          /\ ~last.ret.raised
          /\ last.ret.narration =
                 extract_and_speak_narration(Cur, last.arg, Works).narration
    /\ last.op = "send_message" =>
          /\ last.ret.kind = "sent"
          /\ Cur.history # <<>>
          /\ Stored.content = last.arg.text
          /\ Stored.narration = last.ret.narration
          /\ Stored.narration =
                 IF DictGet(last.arg, "use_voice", FALSE)
                 THEN process_message_sync(Cur, last.arg.text, TRUE, Works).narration
                 ELSE None

\* send_message has stored a message with its narration although the
\* speech it triggered failed
C14_Witness ==
    /\ last.op = "send_message"
    /\ last.ret.kind = "sent"
    /\ last.ret.logged
    /\ last.ret.spoken = Some(<<"a">>)
    /\ Stored.narration = Some(<<"a">>)
    /\ playing = {}

\* C15, as claimed: speak_async returns without waiting for synthesis and
\* playback to finish, on every path it can take.
C15_SpeakAsyncNeverWaits ==
    last.op = "speak_async" => ~last.ret.waited

\* does the world make speech input fail?
ListenFails(env) == env.stt_raises \/ env.listen_raises

\* C16: when the construction of the listener or its listen call raises,
\* VoiceController.listen raises to its caller and the listen tool returns
\* an error result instead of raising; otherwise both give the transcribed
\* text.
C16_ListenErrorShaped ==
    /\ last.op = "VoiceController.listen" =>
          /\ last.ret.raised <=> ListenFails(last.arg)
          /\ ~last.ret.raised => last.ret.text # None
    /\ last.op = "listen" =>
          IF ListenFails(last.arg)
          THEN last.ret.kind = "error"
          ELSE last.ret = [kind |-> "transcribed", text |-> Val(listen(last.arg).text)]

\* the listen tool has returned an error result because the listener could
\* not be constructed
C16_Witness ==
    /\ last.op = "listen"
    /\ last.arg.stt_raises
    /\ last.ret.kind = "error"

\* C17: a send_message that carries a text, the empty and the
\* whitespace-only text included, appends one message to the end of the
\* current session's history, with that text as content and the given role
\* (user when left out), and leaves the messages before it as they were;
\* no step but a clear changes a history in any other way.
C17_HistoryAppendOnly ==
    [][ /\ last'.op = "send_message" =>
              LET before == IF HasCurrent THEN Cur.history ELSE <<>>
                  after == CurAfter.history
              IN  /\ Len(after) = Len(before) + 1
                  /\ SubSeq(after, 1, Len(before)) = before
                  /\ after[Len(after)].content = last'.arg.text
                  /\ after[Len(after)].role =
                         IF "role" \in DOMAIN last'.arg THEN last'.arg.role ELSE "user"
                  /\ \A id \in DOMAIN sessions \ {Val(current')} :
                         sessions'[id].history = sessions[id].history
        /\ last'.op \notin {"send_message", "clear_conversation"} =>
              \A id \in DOMAIN sessions \cap DOMAIN sessions' :
                  sessions'[id].history = sessions[id].history
      ]_vars

\* the whitespace-only text was just sent by the assistant to a history
\* that held only empty texts sent with the role left out
C17_Witness ==
    /\ last.op = "send_message"
    /\ HasCurrent
    /\ Len(Cur.history) = MaxChat
    /\ \A i \in 1..(MaxChat - 1) :
           Cur.history[i].content = <<>> /\ Cur.history[i].role = "user"
    /\ Stored.content = <<" ">>
    /\ Stored.role = "assistant"

\* C18, as claimed: send_message with use_voice stores as the message's
\* narration the value extract_and_speak returns for the text, whatever
\* narration_enabled and auto_speak are; without use_voice the stored
\* narration is absent and no speech is triggered.
C18_StoresWhatExtractAndSpeakReturns ==
    (last.op = "send_message" /\ last.ret.kind = "sent") =>
        IF DictGet(last.arg, "use_voice", FALSE)
        THEN Stored.narration =
                 extract_and_speak_narration(Cur, last.arg.text, Works).narration
        ELSE Stored.narration = None /\ last.ret.spoken = None

\* C19: get_history(limit) on a history h gives, in the order of h, the
\* last min(limit, len(h)) messages of h for a positive limit, the empty
\* list for limit 0, and all of h when limit is left out.
C19_HistoryLimit ==
    last.op = "get_conversation_history" =>
        LET h == Cur.history
            got == last.ret.messages
        IN  IF last.arg = None THEN got = h
            ELSE IF Val(last.arg) = 0 THEN got = <<>>
            ELSE LET n == Min(Val(last.arg), Len(h))
                 IN  /\ Len(got) = n
                     /\ \A i \in 1..n : got[i] = h[Len(h) - n + i]

\* a limit smaller than the history has given its last messages, which
\* differ from its first ones
C19_Witness ==
    /\ last.op = "get_conversation_history"
    /\ last.arg # None
    /\ Val(last.arg) = MaxChat - 1
    /\ Len(Cur.history) = MaxChat
    /\ Cur.history[1] # Cur.history[MaxChat]
    /\ last.ret.messages = SubSeq(Cur.history, 2, MaxChat)

\* C20, as claimed: the get_history tool gives the "no history" result
\* exactly when the current session holds no message; for a session with a
\* message, whatever the limit, it gives the listing of the selected
\* messages.
C20_NoHistoryIffEmpty ==
    last.op = "get_conversation_history" =>
        /\ last.ret.kind = "no_history" <=> Cur.history = <<>>
        /\ Cur.history # <<>> =>
              /\ last.ret.kind = "listing"
              /\ last.ret.messages = get_history(Cur, last.arg)

\* C21: clear_conversation empties the current session's history and
\* reports the number of messages it held just before; the session keeps
\* its id and voice settings and stays current, no session comes or goes,
\* and the send_message that follows a clear lands in that session as its
\* only message.
C21_ClearKeepsSession ==
    [][ /\ last'.op = "clear_conversation" =>
              /\ CurAfter.history = <<>>
              /\ last'.ret.count = IF HasCurrent THEN Len(Cur.history) ELSE 0
              /\ HasCurrent =>
                    /\ current' = current
                    /\ DOMAIN sessions' = DOMAIN sessions
                    /\ CurAfter.session_id = Cur.session_id
                    /\ CurAfter.voice_settings = Cur.voice_settings
        /\ (last.op = "clear_conversation" /\ last'.op = "send_message") =>
              /\ current' = current
              /\ DOMAIN sessions' = DOMAIN sessions
              /\ CurAfter.session_id = Cur.session_id
              /\ Len(CurAfter.history) = 1
              /\ CurAfter.history[1].content = last'.arg.text
      ]_vars

\* a clear has removed a full history from a session whose auto_speak had
\* been switched off, and the session kept that setting
C21_Witness ==
    /\ last.op = "clear_conversation"
    /\ last.ret.count = MaxChat
    /\ HasCurrent
    /\ Cur.history = <<>>
    /\ Cur.voice_settings.auto_speak = FALSE

\* the call names no handler, or is a send_message without text
FailsBeforeAnySession(call) ==
    \/ call.name \notin ToolOps
    \/ call.name = "send_message" /\ "text" \notin DOMAIN call.arguments

\* C22: every tool call, whatever its name and arguments, ends in a text
\* result and does not raise; a call that fails because its name is
\* unknown or because send_message lacks its text leaves the registry and
\* every session as they were.
C22_CallsNeverRaise ==
    [][ /\ last'.op \in ToolOps \cup {"call_tool"} => last'.ret.kind # "raised"
        /\ last'.op = "call_tool" => last'.ret.kind \in {"unknown_tool", "error"}
        /\ (last'.op = "call_tool" /\ FailsBeforeAnySession(last'.arg)) =>
              /\ UNCHANGED <<sessions, current, issued>>
              /\ last'.ret.kind = IF last'.arg.name \in ToolOps
                                  THEN "error" ELSE "unknown_tool"
      ]_vars

\* a send_message without text has come back as an error on a registry
\* that has never held a session
C22_Witness ==
    /\ last.op = "call_tool"
    /\ last.arg.name = "send_message"
    /\ last.ret.kind = "error"
    /\ sessions = EmptyMap
    /\ issued = {}

\* one step of a reader that goes through a text once, left to right: it is
\* outside a region until a start marker, holds what it reads from there
\* on, and at the end marker that follows closes a block and lets go of
\* what it held
ScanStep(st, c) ==
    IF ~st.inside
    THEN IF IsOpen(c)
         THEN [st EXCEPT !.inside = TRUE, !.held = <<c>>]
         ELSE [st EXCEPT !.outside = Append(@, c)]
    ELSE IF IsClose(c)
         THEN [st EXCEPT !.inside = FALSE, !.held = <<>>,
                         !.blocks = Append(@, Tail(st.held))]
         ELSE [st EXCEPT !.held = Append(@, c)]

\* the reader after the first n tokens of the text
RECURSIVE Scan(_, _)
Scan(text, n) ==
    IF n = 0 THEN [inside |-> FALSE, held |-> <<>>, outside |-> <<>>, blocks |-> <<>>]
    ELSE ScanStep(Scan(text, n - 1), text[n])

\* the contents of the complete marker pairs of a text, in source order
Blocks(text) == Scan(text, Len(text)).blocks

\* the text outside the complete marker pairs: a start marker no end marker
\* follows stays, with what comes after it
Outside(text) == Scan(text, Len(text)).outside \o Scan(text, Len(text)).held

\* the first n of the blocks, each cleaned, with ". " between them
RECURSIVE CleanedAndJoined(_, _)
CleanedAndJoined(blocks, n) ==
    IF n = 1 THEN clean_narration(blocks[1])
    ELSE CleanedAndJoined(blocks, n - 1) \o <<".", " ">> \o clean_narration(blocks[n])

\* C23: extract_narration in all-combined mode returns None for a text
\* without a complete marker pair; for a text with N >= 1 complete pairs it
\* returns the N blocks, each cleaned on its own, joined by ". " in source
\* order, which for one pair is what the first-only mode returns.
C23_AllCombined ==
    (last.op = "extract_narration" /\ last.arg.multi_point) =>
        LET blocks == Blocks(last.arg.text)
        IN  /\ blocks = <<>> => last.ret = None
            /\ blocks # <<>> => last.ret = Some(CleanedAndJoined(blocks, Len(blocks)))
            /\ Len(blocks) = 1 => last.ret = extract_narration(last.arg.text, FALSE)

\* two pairs, the second one empty: the separator follows the first block
C23_Witness ==
    /\ last.op = "extract_narration" /\ last.arg.multi_point
    /\ Len(Blocks(last.arg.text)) = 2
    /\ last.ret = Some(<<"a", ".", " ">>)

C25_RemoveTags ==
    /\ last.op = "remove_narration_tags" =>
          /\ last.ret = Strip(Outside(last.arg))
          /\ Blocks(last.arg) = <<>> => last.ret = Strip(last.arg)
    /\ (last.op = "extract_narration" /\ Blocks(last.arg.text) = <<>>) =>
          last.ret = None

\* a region in lower-case markers goes, the text on both sides stays, and
\* so does the start marker nothing closes
C25_Witness ==
    /\ last.op = "remove_narration_tags"
    /\ last.arg = <<"a", open_lower, "a", close_lower, OPEN>>
    /\ last.ret = <<"a", OPEN>>

\* whether update_settings changed what a provider is built from
TtsChanged == TtsConfig([voice_settings |-> last.was]) # TtsConfig(Bound)
SttChanged == SttConfig([voice_settings |-> last.was]) # SttConfig(Bound)

C28_CachedMatchesSettings ==
    controller # None =>
        /\ Val(controller).tts_provider \in {None, Some(TtsConfig(Bound))}
        /\ Val(controller).stt_provider \in {None, Some(SttConfig(Bound))}

\* the invocations that have returned
Done == {i \in DOMAIN tasks : tasks[i].pc = "done"}

Ordered(s) ==
    /\ s.created_at <= s.last_activity
    /\ \A k \in 1..Len(s.history) : s.history[k].timestamp <= s.last_activity
    /\ \A k \in 1..(Len(s.history) - 1) :
          s.history[k].timestamp <= s.history[k + 1].timestamp

\* C29: in every session of the registry created_at <= last_activity, the
\* timestamps of the messages do not go down along the history, and none is
\* later than last_activity.
C29_TimestampsOrdered == \A id \in DOMAIN sessions : Ordered(sessions[id])

\* two messages stamped at different hours, both after the creation
C29_Witness ==
    /\ HasCurrent
    /\ Len(Cur.history) = 2
    /\ Cur.created_at < Cur.history[1].timestamp
    /\ Cur.history[1].timestamp < Cur.history[2].timestamp
    /\ Cur.history[2].timestamp = Cur.last_activity

\* the operations that read
ReadOps == {"get_conversation_history", "get_voice_settings", "read_resource", "get_history"}

====
